---- MODULE Spec2Model ----
(***************************************************************************)
(* A model of haweatherstation: the Home Assistant client (hassapi.py),    *)
(* the rtl_433 line reader (weatherstation.py), the entity updates, and    *)
(* the startup and the loop of main() (__main__.py).                       *)
(*                                                                         *)
(* Python values are records [t, n, s]: t is the Python type, n the number *)
(* (floats are kept in hundredths, so 14.64 is n = 1464; ints and bools    *)
(* are kept as they are) and s the text of a str, one character per       *)
(* element.                                                                *)
(***************************************************************************)
EXTENDS Integers, Sequences, FiniteSets, TLC

\* ------------------------------------------------------------------ bounds

\* Largest whole number that occurs in a raw value (floats reach MaxNum.99).
MaxNum == 2

\* Retry budget of the transport. The code sets total = connect = 10^6; the
\* model keeps the same policy with a small budget.
MaxRetries == 2

\* Longest entity id, in characters.
MaxIdLen == 3

\* Lines the pipe of the subprocess holds at most, and readings after which
\* the subprocess writes no more.
MaxPipe == 1
MaxReadings == 2

\* ------------------------------------------------------------ Python values

NoneV == [t |-> "none", n |-> 0, s |-> <<>>]
FloatV(h) == [t |-> "float", n |-> h, s |-> <<>>]
IntV(i) == [t |-> "int", n |-> i, s |-> <<>>]
StrV(x) == [t |-> "str", n |-> 0, s |-> x]
BoolV(b) == [t |-> "bool", n |-> IF b THEN 1 ELSE 0, s |-> <<>>]

IsNumber(v) == v.t \in {"float", "int", "bool"}

\* A number in hundredths, whatever its Python type.
Hundredths(v) == IF v.t = "float" THEN v.n ELSE 100 * v.n

\* Python's ==: numbers compare by value across float/int/bool, strings by
\* text, None equals only None.
PyEq(a, b) ==
    IF IsNumber(a) /\ IsNumber(b) THEN Hundredths(a) = Hundredths(b)
    ELSE a = b

Digits == <<"0", "1", "2", "3", "4", "5", "6", "7", "8", "9">>
Digit(d) == Digits[d + 1]
IsDigit(ch) == \E d \in 0..9 : Digits[d + 1] = ch
DigitVal(ch) == CHOOSE d \in 0..9 : Digits[d + 1] = ch

RECURSIVE FormatNat(_)
FormatNat(i) ==
    IF i < 10 THEN <<Digit(i)>> ELSE FormatNat(i \div 10) \o <<Digit(i % 10)>>

\* str(i) of an int.
FormatInt(i) == IF i < 0 THEN <<"-">> \o FormatNat(-i) ELSE FormatNat(i)

\* str(x) of a float with at most two decimals: 14.6 -> "14.6", 2.0 -> "2.0".
FormatFloat(h) ==
    LET a == IF h < 0 THEN -h ELSE h
        frac == IF a % 10 = 0 THEN <<Digit((a \div 10) % 10)>>
                ELSE <<Digit((a \div 10) % 10), Digit(a % 10)>>
    IN  (IF h < 0 THEN <<"-">> ELSE <<>>) \o FormatNat(a \div 100) \o <<".">> \o frac

AllDigits(x) == \A i \in 1..Len(x) : IsDigit(x[i])

\* The value of a run of digits.
RECURSIVE ParseNat(_)
ParseNat(x) ==
    IF x = <<>> THEN 0
    ELSE 10 * ParseNat(SubSeq(x, 1, Len(x) - 1)) + DigitVal(x[Len(x)])

Unsigned(x) == IF x # <<>> /\ x[1] \in {"-", "+"} THEN Tail(x) ELSE x
Negative(x) == x # <<>> /\ x[1] = "-"

\* int(text) succeeds on an optional sign and one or more digits.
SpellsInt(x) == Unsigned(x) # <<>> /\ AllDigits(Unsigned(x))
ParseInt(x) == IF Negative(x) THEN -ParseNat(Unsigned(x)) ELSE ParseNat(Unsigned(x))

\* float(text) succeeds on a whole number or a decimal; the texts of the
\* model have at most two decimals. whole and frac are the digits before
\* and after the point.
DotAt(x) == CHOOSE i \in 1..Len(x) : x[i] = "."
HasDot(x) == \E i \in 1..Len(x) : x[i] = "."
SpellsFloat(x) ==
    LET u == Unsigned(x)
    IN  IF ~HasDot(u) THEN u # <<>> /\ AllDigits(u)
        ELSE LET whole == SubSeq(u, 1, DotAt(u) - 1)
                 frac == SubSeq(u, DotAt(u) + 1, Len(u))
             IN  /\ AllDigits(whole) /\ AllDigits(frac)
                 /\ Len(whole) + Len(frac) > 0
                 /\ Len(frac) <= 2
ParseFloat(x) ==
    LET u == Unsigned(x)
        a == IF ~HasDot(u) THEN 100 * ParseNat(u)
             ELSE LET whole == SubSeq(u, 1, DotAt(u) - 1)
                      frac == SubSeq(u, DotAt(u) + 1, Len(u))
                  IN  100 * ParseNat(whole)
                        + (IF Len(frac) = 1 THEN 10 * ParseNat(frac) ELSE ParseNat(frac))
    IN  IF Negative(x) THEN -a ELSE a

\* round(x, precision) on hundredths; the raw values hold no ties.
Round(h, precision) ==
    LET unit == IF precision >= 2 THEN 1 ELSE IF precision = 1 THEN 10 ELSE 100
        a == IF h < 0 THEN -h ELSE h
        r == ((a + unit \div 2) \div unit) * unit
    IN  IF h < 0 THEN -r ELSE r

\* int(x) of a float truncates toward zero.
Trunc(h) == IF h < 0 THEN -((-h) \div 100) ELSE h \div 100

\* The result of a conversion: exc is "" on success, else the exception.
Ok(v) == [exc |-> "", val |-> v]
Raised(e) == [exc |-> e, val |-> NoneV]

\* float(x)
ToFloat(raw) ==
    CASE raw.t = "none" -> Raised("TypeError")
      [] raw.t = "str" ->
            IF SpellsFloat(raw.s) THEN Ok(FloatV(ParseFloat(raw.s)))
            ELSE Raised("ValueError")
      [] OTHER -> Ok(FloatV(Hundredths(raw)))

\* int(x)
ToInt(raw) ==
    CASE raw.t = "none" -> Raised("TypeError")
      [] raw.t = "str" ->
            IF SpellsInt(raw.s) THEN Ok(IntV(ParseInt(raw.s)))
            ELSE Raised("ValueError")
      [] raw.t = "float" -> Ok(IntV(Trunc(raw.n)))
      [] OTHER -> Ok(IntV(raw.n))

\* str(x)
ToStr(raw) ==
    CASE raw.t = "none" -> Ok(StrV(<<"N", "o", "n", "e">>))
      [] raw.t = "str" -> Ok(raw)
      [] raw.t = "float" -> Ok(StrV(FormatFloat(raw.n)))
      [] raw.t = "int" -> Ok(StrV(FormatInt(raw.n)))
      [] OTHER -> Ok(StrV(IF raw.n = 1 THEN <<"T", "r", "u", "e">>
                          ELSE <<"F", "a", "l", "s", "e">>))

\* bool(x)
ToBool(raw) ==
    CASE raw.t = "none" -> Ok(BoolV(FALSE))
      [] raw.t = "str" -> Ok(BoolV(raw.s # <<>>))
      [] OTHER -> Ok(BoolV(raw.n # 0))

\* self.dtype(state), then round(state, self.precision) for a float.
Coerce(dtype, precision, raw) ==
    CASE dtype = "float" ->
            LET c == ToFloat(raw)
            IN  IF c.exc = "" THEN Ok(FloatV(Round(c.val.n, precision))) ELSE c
      [] dtype = "int" -> ToInt(raw)
      [] dtype = "str" -> ToStr(raw)
      [] OTHER -> ToBool(raw)

Dtypes == {"float", "int", "str", "bool"}

\* The raw values handed to update: None, texts, floats whose second
\* decimal is not 5 (round has no tie to break), ints and bools.
Texts ==
    {<<>>, <<"a", "b", "c">>, <<"o", "n">>, <<"2">>, <<"1", ".", "5">>,
     <<"1", ".", "4", "6">>}
RawFloats == {FloatV(h) : h \in {0, 144, 146, 150, 100 * MaxNum}}
RawValues ==
    {NoneV} \cup {StrV(x) : x \in Texts} \cup RawFloats
        \cup {IntV(i) : i \in {0, MaxNum}} \cup {BoolV(TRUE)}

\* --------------------------------------------------------------- entity ids

IdChars == {"a", "."}

\* Entity ids: every text of at most MaxIdLen characters over IdChars, so
\* "a.a" (one separator), "aaa" (none) and ".a." (two) all occur.
EntityIds == UNION {[1..k -> IdChars] : k \in 0..MaxIdLen}

\* entity_id.split("."): the parts between the separators.
RECURSIVE Split(_)
Split(id) ==
    IF \A i \in 1..Len(id) : id[i] # "." THEN <<id>>
    ELSE LET d == CHOOSE i \in 1..Len(id) :
                      id[i] = "." /\ \A j \in 1..(i - 1) : id[j] # "."
         IN  <<SubSeq(id, 1, d - 1)>> \o Split(SubSeq(id, d + 1, Len(id)))

\* _format_entity_url accepting every id that has a separator.
format_entity_url_some_separator(entity_id) == Len(Split(entity_id)) >= 2

\* _format_entity_url: TRUE when the url is built, FALSE when it raises
\* ValueError("Invalid entity_id").
format_entity_url(entity_id) == Len(Split(entity_id)) = 2

\* ---------------------------------------------------------------- transport

\* What the hub does with one attempt: answers with a status, refuses the
\* connection, or accepts the request and never answers.
Status(c) == [kind |-> "status", code |-> c]
Refused == [kind |-> "refused", code |-> 0]
Silent == [kind |-> "silent", code |-> 0]
HubStatuses == {200, 201, 401, 404, 500, 503}
Answers == {Status(c) : c \in HubStatuses} \cup {Refused, Silent}

\* Retry(total, connect, status_forcelist) mounted on 'http://'. Any other
\* scheme keeps the session's default adapter, which does not retry.
status_forcelist == {500, 502, 503, 504}
\* allowed_methods is not given, so urllib3's default applies.
allowed_methods == {"HEAD", "GET", "PUT", "DELETE", "OPTIONS", "TRACE"}
Schemes == {"http", "https"}
retries(scheme) ==
    IF scheme = "http"
    THEN [total |-> MaxRetries, forcelist |-> status_forcelist, read |-> TRUE]
    ELSE [total |-> 0, forcelist |-> {}, read |-> FALSE]

\* Retry.is_retry(method, status_code)
is_retry(policy, method, code) ==
    method \in allowed_methods /\ code \in policy.forcelist

\* Whether a read timeout is retried: Retry.increment re-raises it when
\* read is False or the method is not retryable.
retry_read(policy, method) == policy.read /\ method \in allowed_methods

\* response.ok
ok(code) == code < 400

\* What the adapter makes of one answer: "again" (sleep, then one more
\* attempt), a response handed to the caller, an exception, or "blocked"
\* (no timeout was given and the hub never answers).
Transport(kind, code, exc) == [kind |-> kind, code |-> code, exc |-> exc]

\* One attempt of s.get / s.post under the mounted Retry. timeout says
\* whether the call passes timeout=; budget is the number of retries left.
send(policy, method, timeout, budget, a) ==
    CASE a.kind = "status" ->
            IF is_retry(policy, method, a.code)
            THEN IF budget = 0 THEN Transport("raise", 0, "requests.RetryError")
                 ELSE Transport("again", 0, "")
            ELSE Transport("response", a.code, "")
      [] a.kind = "refused" ->
            IF budget = 0 THEN Transport("raise", 0, "requests.ConnectionError")
            ELSE Transport("again", 0, "")
      [] OTHER ->
            IF ~timeout THEN Transport("blocked", 0, "")
            ELSE IF ~retry_read(policy, method)
            THEN Transport("raise", 0, "requests.ReadTimeout")
            ELSE IF budget = 0 THEN Transport("raise", 0, "requests.ConnectionError")
            ELSE Transport("again", 0, "")

\* ------------------------------------------------------------- WeatherData

\* A key that the JSON object does not hold.
Absent == [t |-> "absent", n |-> 0, s |-> <<>>]

\* raw_data.get(key)
Get(obj, key) == IF obj[key] = Absent THEN NoneV ELSE obj[key]

\* datetime.strptime(text, "%Y-%m-%d %H:%M:%S") on the zero-padded form
\* YYYY-MM-DD HH:MM:SS; the two digits at p as a number.
TwoDigits(x, p) == 10 * DigitVal(x[p]) + DigitVal(x[p + 1])
MatchesFormat(x) ==
    /\ Len(x) = 19
    /\ x[5] = "-" /\ x[8] = "-" /\ x[11] = " " /\ x[14] = ":" /\ x[17] = ":"
    /\ \A i \in (1..19) \ {5, 8, 11, 14, 17} : IsDigit(x[i])
    /\ TwoDigits(x, 6) \in 1..12 /\ TwoDigits(x, 9) \in 1..31
    /\ TwoDigits(x, 12) \in 0..23 /\ TwoDigits(x, 15) \in 0..59
    /\ TwoDigits(x, 18) \in 0..61
DateTime(x) ==
    [t |-> "datetime",
     n |-> ((TwoDigits(x, 12) * 60) + TwoDigits(x, 15)) * 60 + TwoDigits(x, 18),
     s |-> SubSeq(x, 1, 10)]
strptime(raw) ==
    IF raw.t # "str" THEN Raised("TypeError")
    ELSE IF MatchesFormat(raw.s) THEN Ok(DateTime(raw.s))
    ELSE Raised("ValueError")

\* The fields of WeatherData in the order __post_init__ sets them, with the
\* key each one is read from and the conversion applied to it.
Fields ==
    <<[name |-> "temperature", key |-> "temperature_C", conv |-> "float"],
      [name |-> "humidity", key |-> "humidity", conv |-> "int"],
      [name |-> "wind_speed_avg", key |-> "wind_avg_m_s", conv |-> "float"],
      [name |-> "wind_speed_max", key |-> "wind_max_m_s", conv |-> "float"],
      [name |-> "wind_direction", key |-> "wind_dir_deg", conv |-> "int"],
      [name |-> "rain", key |-> "rain_mm", conv |-> "float"],
      [name |-> "battery_ok", key |-> "battery_ok", conv |-> "bool"],
      [name |-> "date_time", key |-> "time", conv |-> "strptime"]>>

Convert(conv, raw) ==
    CASE conv = "float" -> ToFloat(raw)
      [] conv = "int" -> ToInt(raw)
      [] conv = "bool" -> ToBool(raw)
      [] OTHER -> strptime(raw)

\* The first field whose conversion raises, or 0.
FirstFailure(obj) ==
    IF \A i \in 1..Len(Fields) : Convert(Fields[i].conv, Get(obj, Fields[i].key)).exc = ""
    THEN 0
    ELSE CHOOSE i \in 1..Len(Fields) :
            /\ Convert(Fields[i].conv, Get(obj, Fields[i].key)).exc # ""
            /\ \A j \in 1..(i - 1) :
                  Convert(Fields[j].conv, Get(obj, Fields[j].key)).exc = ""

FieldNames == {Fields[i].name : i \in 1..Len(Fields)}
FieldOf(name) == CHOOSE i \in 1..Len(Fields) : Fields[i].name = name

\* WeatherData(raw_data=obj): the object with its eight fields, or the
\* exception of the first conversion that fails.
WeatherData(obj) ==
    IF FirstFailure(obj) # 0
    THEN [exc |-> Convert(Fields[FirstFailure(obj)].conv,
                          Get(obj, Fields[FirstFailure(obj)].key)).exc,
          data |-> [f \in FieldNames |-> NoneV]]
    ELSE [exc |-> "",
          data |-> [f \in FieldNames |->
                       Convert(Fields[FieldOf(f)].conv,
                               Get(obj, Fields[FieldOf(f)].key)).val]]

\* ----------------------------------------------------------- WeatherStation

\* The configured station: station_id and station_model.
station_id == IntV(176)
station_model == StrV(<<"Bresser-5in1">>)

GoodTime ==
    <<"2", "0", "2", "3", "-", "0", "7", "-", "2", "3", " ",
      "0", "0", ":", "4", "0", ":", "4", "0">>

\* The packet of the docstring of WeatherData, and a later one.
Packet1 ==
    [id |-> station_id, model |-> station_model, time |-> StrV(GoodTime),
     battery_ok |-> IntV(1), temperature_C |-> FloatV(1460), humidity |-> IntV(91),
     wind_max_m_s |-> FloatV(80), wind_avg_m_s |-> FloatV(110),
     wind_dir_deg |-> FloatV(18000), rain_mm |-> FloatV(2000)]
Packet2 ==
    [Packet1 EXCEPT !.temperature_C = FloatV(1520), !.battery_ok = IntV(0),
                    !.humidity = StrV(<<"9", "0">>)]

\* One line of the subprocess's output. bytes: not UTF-8; text: does not
\* start with "{"; badjson: starts with "{" and is no JSON; eof: the empty
\* bytes readline returns at the end of the stream; json: an object.
Line(kind, obj) == [kind |-> kind, obj |-> obj]
NoLine == Line("none", Packet1)
EofLine == Line("eof", Packet1)

\* Objects of other stations, and objects of the configured station that
\* lack a field or hold one of the wrong type.
ForeignPackets ==
    {[Packet1 EXCEPT !.id = IntV(177)],
     [Packet1 EXCEPT !.id = StrV(<<"1", "7", "6">>)],
     [Packet1 EXCEPT !.id = Absent],
     [Packet1 EXCEPT !.model = StrV(<<"Other">>)],
     [Packet1 EXCEPT !.model = Absent],
     [Packet2 EXCEPT !.id = IntV(177), !.model = StrV(<<"Other">>)]}
BrokenPackets ==
    {[Packet1 EXCEPT !.temperature_C = Absent],
     [Packet1 EXCEPT !.humidity = StrV(<<"a", "b", "c">>)],
     [Packet1 EXCEPT !.time = StrV(<<"n", "o", "w">>)],
     [Packet1 EXCEPT !.battery_ok = Absent]}
Lines ==
    {Line("bytes", Packet1), Line("text", Packet1), Line("badjson", Packet1)}
        \cup {Line("json", o) : o \in {Packet1, Packet2} \cup ForeignPackets \cup BrokenPackets}

\* The test of line 62 with "and" for "or".
wrong_station_both(obj) ==
    ~PyEq(Get(obj, "id"), station_id) /\ ~PyEq(Get(obj, "model"), station_model)

\* st_id != self.station_id or model != self.station_model
wrong_station(obj) ==
    ~PyEq(Get(obj, "id"), station_id) \/ ~PyEq(Get(obj, "model"), station_model)

\* What one pass of the loop body makes of the line read: "raise" (an
\* exception leaves run_loop), "skip" (continue) or "yield", with the
\* exception, the reading and the records logged.
Pass(took, exc, data, logs) == [took |-> took, exc |-> exc, data |-> data, logs |-> logs]
NoData == [f \in FieldNames |-> NoneV]
loop_body(line) ==
    CASE line.kind = "bytes" -> Pass("raise", "UnicodeDecodeError", NoData, <<>>)
      [] line.kind \in {"text", "eof"} -> Pass("skip", "", NoData, <<>>)
      [] line.kind = "badjson" -> Pass("skip", "", NoData, <<"error">>)
      [] wrong_station(line.obj) -> Pass("skip", "", NoData, <<"debug">>)
      [] WeatherData(line.obj).exc # "" ->
            Pass("raise", WeatherData(line.obj).exc, NoData, <<>>)
      [] OTHER -> Pass("yield", "", WeatherData(line.obj).data, <<>>)

\* ------------------------------------------------------------------ HassAPI

\* What a call did: kind is "return", "raise", "blocked" (the call never
\* comes back) or "pending" (its request is on the wire); exc the exception
\* raised; code the status of the response returned (0: none); http the
\* number of session calls (s.get, s.post) made; logs the records logged.
Outcome(kind, exc, code, http, logs) ==
    [kind |-> kind, exc |-> exc, code |-> code, http |-> http, logs |-> logs]

\* A state object: has says whether it carries the "state" key.
StateObj(v) == [has |-> TRUE, state |-> v]
NoStateKey == [has |-> FALSE, state |-> NoneV]

\* state.get("state")
StateGet(sobj) == IF sobj.has THEN sobj.state ELSE NoneV

\* post_entity_state_check without the test of state.get("state").
post_entity_state_check_always_posts(entity_id, sobj) ==
    IF ~format_entity_url(entity_id) THEN Outcome("raise", "ValueError", 0, 0, <<>>)
    ELSE Outcome("pending", "", 0, 1, <<>>)

\* post_entity_state up to the request: the url is formatted first, then
\* the state is looked at. "pending" means s.post is called.
post_entity_state_check(entity_id, sobj) ==
    IF ~format_entity_url(entity_id) THEN Outcome("raise", "ValueError", 0, 0, <<>>)
    ELSE IF StateGet(sobj) = NoneV THEN Outcome("return", "", 0, 0, <<"warning">>)
    ELSE Outcome("pending", "", 0, 1, <<>>)

\* post_entity_state from the end of s.post on; t is what s.post did.
post_entity_state_result(t) ==
    CASE t.kind = "blocked" -> Outcome("blocked", "", 0, 1, <<>>)
      [] t.kind = "raise" -> Outcome("raise", t.exc, 0, 1, <<>>)
      [] ~ok(t.code) -> Outcome("return", "", t.code, 1, <<"error">>)
      [] t.code \in {200, 201} -> Outcome("return", "", t.code, 1, <<"debug">>)
      [] OTHER -> Outcome("return", "", t.code, 1, <<>>)

\* get_entity_state up to the request.
get_entity_state_check(entity_id) ==
    IF ~format_entity_url(entity_id) THEN Outcome("raise", "ValueError", 0, 0, <<>>)
    ELSE Outcome("pending", "", 0, 1, <<>>)

\* get_entity_state_result without the test of response.ok: every response
\* but a 404 is returned.
get_entity_state_result_unchecked(t) ==
    CASE t.kind = "blocked" -> Outcome("blocked", "", 0, 1, <<>>)
      [] t.kind = "raise" -> Outcome("raise", t.exc, 0, 1, <<>>)
      [] t.code = 404 -> Outcome("raise", "ValueError", 0, 1, <<>>)
      [] OTHER -> Outcome("return", "", t.code, 1, <<>>)

\* get_entity_state from the end of s.get on.
get_entity_state_result(t) ==
    CASE t.kind = "blocked" -> Outcome("blocked", "", 0, 1, <<>>)
      [] t.kind = "raise" -> Outcome("raise", t.exc, 0, 1, <<>>)
      [] t.code = 404 -> Outcome("raise", "ValueError", 0, 1, <<>>)
      [] ~ok(t.code) -> Outcome("raise", "ConnectionError", 0, 1, <<>>)
      [] OTHER -> Outcome("return", "", t.code, 1, <<>>)

\* HassAPI.online from the end of s.get on: the returned outcome carries
\* the probe's status, and response.ok of it is the property's value.
online_result(t) ==
    CASE t.kind = "blocked" -> Outcome("blocked", "", 0, 1, <<>>)
      [] t.kind = "raise" -> Outcome("raise", t.exc, 0, 1, <<>>)
      [] OTHER -> Outcome("return", "", t.code, 1, <<"debug">>)

\* __post_init__ without the test of self.online.
post_init_result_unchecked(t) == online_result(t)

\* HassAPI.__post_init__ after the probe: raises ConnectionError when the
\* API is not online; an exception of the probe itself propagates.
post_init_result(t) ==
    LET r == online_result(t)
    IN  IF r.kind = "return" /\ ~ok(r.code)
        THEN Outcome("raise", "ConnectionError", 0, 1, r.logs)
        ELSE r

\* --------------------------------------------------------------- HassEntity

\* HassEntity(...) after __post_init__: _state is None.
HassEntity(entity_id, dtype, precision, idempotent) ==
    [entity_id |-> entity_id, dtype |-> dtype, precision |-> precision,
     idempotent |-> idempotent, state |-> NoneV]

\* update_check with the idempotence test dropped: every accepted value is
\* posted.
update_check_always_posts(e, raw) ==
    LET c == Coerce(e.dtype, e.precision, raw)
    IN  IF c.exc = "ValueError"
        THEN [state |-> e.state, out |-> Outcome("return", "", 0, 0, <<"error">>)]
        ELSE IF c.exc # ""
        THEN [state |-> e.state, out |-> Outcome("raise", c.exc, 0, 0, <<>>)]
        ELSE [state |-> c.val, out |-> Outcome("pending", "", 0, 0, <<"debug">>)]

\* update_check with the idempotence test made whatever the flag says.
update_check_ignores_flag(e, raw) ==
    LET c == Coerce(e.dtype, e.precision, raw)
    IN  IF c.exc = "ValueError"
        THEN [state |-> e.state, out |-> Outcome("return", "", 0, 0, <<"error">>)]
        ELSE IF c.exc # ""
        THEN [state |-> e.state, out |-> Outcome("raise", c.exc, 0, 0, <<>>)]
        ELSE IF PyEq(e.state, c.val)
        THEN [state |-> e.state, out |-> Outcome("return", "", 0, 0, <<>>)]
        ELSE [state |-> c.val, out |-> Outcome("pending", "", 0, 0, <<"debug">>)]

\* update_check with the cached state cleared when the coercion fails.
update_check_resets_state(e, raw) ==
    LET c == Coerce(e.dtype, e.precision, raw)
    IN  IF c.exc = "ValueError"
        THEN [state |-> NoneV, out |-> Outcome("return", "", 0, 0, <<"error">>)]
        ELSE IF c.exc # ""
        THEN [state |-> NoneV, out |-> Outcome("raise", c.exc, 0, 0, <<>>)]
        ELSE IF e.idempotent /\ PyEq(e.state, c.val)
        THEN [state |-> e.state, out |-> Outcome("return", "", 0, 0, <<>>)]
        ELSE [state |-> c.val, out |-> Outcome("pending", "", 0, 0, <<"debug">>)]

\* update_check without the assignment of line 163: an accepted value is
\* posted and the cached state stays as it was.
update_check_skips_assignment(e, raw) ==
    LET c == Coerce(e.dtype, e.precision, raw)
    IN  IF c.exc = "ValueError"
        THEN [state |-> e.state, out |-> Outcome("return", "", 0, 0, <<"error">>)]
        ELSE IF c.exc # ""
        THEN [state |-> e.state, out |-> Outcome("raise", c.exc, 0, 0, <<>>)]
        ELSE IF e.idempotent /\ PyEq(e.state, c.val)
        THEN [state |-> e.state, out |-> Outcome("return", "", 0, 0, <<>>)]
        ELSE [state |-> e.state, out |-> Outcome("pending", "", 0, 0, <<"debug">>)]

\* update up to the post step: the coercion, the idempotence test and the
\* assignment of the cached state. "pending" means post_entity_state is
\* called with the new state.
update_check(e, raw) ==
    LET c == Coerce(e.dtype, e.precision, raw)
    IN  IF c.exc = "ValueError"
        THEN [state |-> e.state, out |-> Outcome("return", "", 0, 0, <<"error">>)]
        ELSE IF c.exc # ""
        THEN [state |-> e.state, out |-> Outcome("raise", c.exc, 0, 0, <<>>)]
        ELSE IF e.idempotent /\ PyEq(e.state, c.val)
        THEN [state |-> e.state, out |-> Outcome("return", "", 0, 0, <<>>)]
        ELSE [state |-> c.val, out |-> Outcome("pending", "", 0, 0, <<"debug">>)]

\* update from the end of post_entity_state on; r is what that call did.
\* Every exception of it is caught and logged.
update_result(r) ==
    IF r.kind = "raise"
    THEN Outcome("return", "", 0, r.http, <<"debug">> \o r.logs \o <<"error">>)
    ELSE Outcome(r.kind, "", r.code, r.http, <<"debug">> \o r.logs)

\* -------------------------------------------------------------------- state

VARIABLES
    pc,        \* where the caller stands: "ready", or "blocked" inside a call
    api,       \* the HassAPI object: its url scheme and whether it was built
    entities,  \* the HassEntity objects, by name
    posted,    \* per entity, the state of the last body handed to s.post
    req,       \* the session call on the wire, if any, and its retries left
    call,      \* the most recent call: its arguments and what it did
    proc,      \* the rtl_433 subprocess: "none", "running" or "exited"
    pipe,      \* the lines the subprocess has written and nobody has read
    gen,       \* the generator run_loop: where it stands, the line it read
               \* last and what it made of it
    yielded,   \* the WeatherData objects yielded so far
    main       \* the frame of main(): where it stands, its config, its
               \* packet_count, the item of weather_obj.__dict__ it is at, the
               \* updates it has called for the current weather_obj, per key,
               \* and the exception that left it, if any

hass == <<pc, api, entities, posted, req, call>>
station == <<proc, pipe, gen, yielded>>
vars == <<pc, api, entities, posted, req, call, proc, pipe, gen, yielded, main>>

\* No WeatherStation in play.
NoGen == [pc |-> "none", line |-> NoLine, pass |-> Pass("none", "", NoData, <<>>)]
NoStation == proc = "none" /\ pipe = <<>> /\ gen = NoGen /\ yielded = <<>>

\* HassEntity.precision: field(default=1)
Precision == 1

\* The content of config.yaml: the keys main() reads. hass_url is kept as
\* its scheme, entity_id in parts.
Config(id, model, usb_path, hass_url, entity_id, log_level) ==
    [station_id |-> id, station_model |-> model, usb_path |-> usb_path,
     hass_url |-> hass_url, entity_id |-> entity_id, log_level |-> log_level]
NoConfig == Config(NoneV, NoneV, NoneV, "", <<>>, "")

\* main() is not running.
NoMain ==
    [pc |-> "none", config |-> NoConfig, packet_count |-> 0, item |-> 0,
     updates |-> <<>>, exc |-> ""]

NoRequest == [active |-> FALSE, method |-> "", timeout |-> FALSE, budget |-> 0]

\* s.get(...) / s.post(...) starts with the whole retry budget.
Request(method, timeout) ==
    [active |-> TRUE, method |-> method, timeout |-> timeout,
     budget |-> retries(api.scheme).total]

\* op is the operation called, key and id the entity it is about, sobj the
\* state object handed to post_entity_state, raw the value handed to update,
\* pre the cached state before the call, c the coercion of raw, answers the
\* What a call of update did shows that it went into the post step (the
\* record of line 176 is logged first), and that the post step failed (an
\* error is logged last).
Attempted(out) == out.logs # <<>> /\ Head(out.logs) = "debug"
PublishFailed(out) ==
    /\ out.kind = "return" /\ Attempted(out)
    /\ out.logs[Len(out.logs)] = "error"

\* hub's answers to the attempts of the call, out what the call did,
\* after_failure whether the call before it was an update whose post step
\* failed.
Call(op, key, id, sobj, raw, pre, c, out) ==
    [op |-> op, key |-> key, id |-> id, sobj |-> sobj, raw |-> raw, pre |-> pre,
     c |-> c, answers |-> <<>>, out |-> out,
     after_failure |-> call.op = "update" /\ PublishFailed(call.out)]

NoCall ==
    [op |-> "none", key |-> "", id |-> <<>>, sobj |-> NoStateKey, raw |-> NoneV,
     pre |-> NoneV, c |-> Raised(""), answers |-> <<>>,
     out |-> Outcome("none", "", 0, 0, <<>>), after_failure |-> FALSE]

\* The call's outcome once its request has ended with t.
Finish(op, t) ==
    CASE op = "update" -> update_result(post_entity_state_result(t))
      [] op = "post" -> post_entity_state_result(t)
      [] op = "get" -> get_entity_state_result(t)
      [] op = "init" -> post_init_result(t)
      [] OTHER -> online_result(t)

\* Where the caller stands after a call that ended with out.
After(out) == IF out.kind = "blocked" THEN "blocked" ELSE "ready"

\* The HassAPI object after __post_init__ ended with out: there is an
\* object only if it returned; probe is the status of the probe's response.
Built(a, out) ==
    [a EXCEPT !.built = IF out.kind = "return" THEN "yes" ELSE "failed",
              !.probe = out.code]

\* The hub answers one attempt of the request on the wire: the adapter
\* tries again, or the session call ends and the operation that made it
\* runs to its end.
Answer(a) ==
    /\ req.active
    /\ \E t \in {send(retries(api.scheme), req.method, req.timeout, req.budget, a)} :
          IF t.kind = "again"
          THEN /\ req' = [req EXCEPT !.budget = @ - 1]
               /\ call' = [call EXCEPT !.answers = Append(@, a)]
               /\ UNCHANGED <<pc, api>>
          ELSE /\ req' = NoRequest
               /\ call' = [call EXCEPT !.answers = Append(@, a),
                                       !.out = Finish(call.op, t)]
               /\ pc' = After(Finish(call.op, t))
               /\ api' = IF call.op = "init" THEN Built(api, Finish(call.op, t)) ELSE api
    /\ UNCHANGED <<entities, posted>>
    /\ UNCHANGED station
    /\ UNCHANGED main

\* ------------------------------------------- HassEntity.update on its own

\* The ids of the entities under update: one that _format_entity_url
\* accepts and one that it rejects.
UpdateIds == {<<"a", ".", "a">>, <<"a", "a">>}

InitEntity ==
    /\ pc = "ready"
    /\ api = [scheme |-> "http", built |-> "yes", probe |-> 200]
    /\ \E id \in UpdateIds, dtype \in Dtypes, idempotent \in BOOLEAN :
          entities = [k \in {"e"} |-> HassEntity(id, dtype, Precision, idempotent)]
    /\ posted = [k \in {"e"} |-> NoneV]
    /\ req = NoRequest
    /\ call = NoCall
    /\ NoStation
    /\ main = NoMain

\* entities[k].update(raw), up to its return or to the s.post it makes.
update(k, raw) ==
    /\ pc = "ready" /\ ~req.active
    /\ \E u \in {update_check(entities[k], raw)} :
       \E p \in {IF u.out.kind = "pending"
                 THEN post_entity_state_check(entities[k].entity_id, StateObj(u.state))
                 ELSE u.out} :
       \E out \in {CASE u.out.kind # "pending" -> u.out
                     [] p.kind = "pending" -> [p EXCEPT !.logs = u.out.logs]
                     [] OTHER -> update_result(p)} :
          /\ entities' = [entities EXCEPT ![k].state = u.state]
          /\ call' = Call("update", k, entities[k].entity_id, NoStateKey, raw,
                          entities[k].state,
                          Coerce(entities[k].dtype, entities[k].precision, raw), out)
          /\ IF out.kind = "pending"
             THEN /\ req' = Request("POST", FALSE)
                  /\ posted' = [posted EXCEPT ![k] = u.state]
             ELSE UNCHANGED <<req, posted>>
          /\ pc' = After(out)
    /\ UNCHANGED api
    /\ UNCHANGED station

\* update called by a caller that is not main().
Update(k, raw) == update(k, raw) /\ UNCHANGED main

NextEntity ==
    \/ \E raw \in RawValues : Update("e", raw)
    \/ \E a \in Answers : Answer(a)

SpecEntity == InitEntity /\ [][NextEntity]_vars

\* ------------------------------------------------- HassAPI on its own

\* The state objects handed to post_entity_state: without the key, with a
\* null state, with an empty text, and with values as update builds them.
StateObjs ==
    {NoStateKey, StateObj(NoneV), StateObj(StrV(<<>>)), StateObj(FloatV(150)),
     StateObj(StrV(<<"o", "n">>))}

InitApi ==
    /\ pc = "ready"
    /\ \E scheme \in Schemes : api = [scheme |-> scheme, built |-> "no", probe |-> 0]
    /\ entities = [k \in {} |-> NoneV]
    /\ posted = [k \in {} |-> NoneV]
    /\ req = NoRequest
    /\ call = NoCall
    /\ NoStation
    /\ main = NoMain

\* HassAPI(hass_url, token): __post_init__ up to the probe's s.get.
Construct ==
    /\ pc = "ready" /\ ~req.active /\ api.built = "no"
    /\ call' = Call("init", "", <<>>, NoStateKey, NoneV, NoneV, Raised(""),
                    Outcome("pending", "", 0, 1, <<>>))
    /\ req' = Request("GET", TRUE)
    /\ UNCHANGED <<pc, api, entities, posted>>
    /\ UNCHANGED station
    /\ UNCHANGED main

\* api.post_entity_state(entity_id, sobj), up to its return or its s.post.
PostState(entity_id, sobj) ==
    /\ pc = "ready" /\ ~req.active /\ api.built = "yes"
    /\ \E out \in {post_entity_state_check(entity_id, sobj)} :
          /\ call' = Call("post", "", entity_id, sobj, NoneV, NoneV, Raised(""), out)
          /\ req' = IF out.kind = "pending" THEN Request("POST", FALSE) ELSE req
          /\ pc' = After(out)
    /\ UNCHANGED <<api, entities, posted>>
    /\ UNCHANGED station
    /\ UNCHANGED main

\* api.get_entity_state(entity_id), up to its raise or its s.get.
GetState(entity_id) ==
    /\ pc = "ready" /\ ~req.active /\ api.built = "yes"
    /\ \E out \in {get_entity_state_check(entity_id)} :
          /\ call' = Call("get", "", entity_id, NoStateKey, NoneV, NoneV, Raised(""), out)
          /\ req' = IF out.kind = "pending" THEN Request("GET", TRUE) ELSE req
          /\ pc' = After(out)
    /\ UNCHANGED <<api, entities, posted>>
    /\ UNCHANGED station
    /\ UNCHANGED main

NextApi ==
    \/ Construct
    \/ \E id \in EntityIds, sobj \in StateObjs : PostState(id, sobj)
    \/ \E id \in EntityIds : GetState(id)
    \/ \E a \in Answers : Answer(a)

SpecApi == InitApi /\ [][NextApi]_vars

\* ------------------------------------------ WeatherStation.run_loop on its own

InitReader ==
    /\ pc = "ready"
    /\ api = [scheme |-> "http", built |-> "no", probe |-> 0]
    /\ entities = [k \in {} |-> NoneV]
    /\ posted = [k \in {} |-> NoneV]
    /\ req = NoRequest
    /\ call = NoCall
    /\ proc = "none"
    /\ pipe = <<>>
    /\ gen = [NoGen EXCEPT !.pc = "new"]
    /\ yielded = <<>>
    /\ main = NoMain

\* next() on the generator: the first time the generator starts and Popen
\* launches the subprocess; later it resumes after its yield.
next ==
    /\ gen.pc \in {"new", "suspended"}
    /\ proc' = IF gen.pc = "new" THEN "running" ELSE proc
    /\ gen' = [gen EXCEPT !.pc = "poll"]
    /\ UNCHANGED <<pipe, yielded>>
    /\ UNCHANGED hass

\* A consumer that is not main() asks for the next item.
Pull == next /\ UNCHANGED main

\* The subprocess writes one line to its output.
ProcWrite(line) ==
    /\ proc = "running"
    /\ Len(pipe) < MaxPipe /\ Len(yielded) < MaxReadings
    /\ pipe' = Append(pipe, line)
    /\ UNCHANGED <<proc, gen, yielded>>
    /\ UNCHANGED hass
    /\ UNCHANGED main

\* The subprocess exits (a crash, a kill).
ProcExit ==
    /\ proc = "running"
    /\ proc' = "exited"
    /\ UNCHANGED <<pipe, gen, yielded>>
    /\ UNCHANGED hass
    /\ UNCHANGED main

\* retcode = proc.poll(): break when the subprocess has exited; leaving the
\* with block then ends the generator.
Poll ==
    /\ gen.pc = "poll"
    /\ gen' = [gen EXCEPT !.pc = IF proc = "exited" THEN "done" ELSE "read"]
    /\ UNCHANGED <<proc, pipe, yielded>>
    /\ UNCHANGED hass
    /\ UNCHANGED main

\* proc.stdout.readline() and the rest of the loop body. readline waits for
\* a line; at the end of the stream it returns empty bytes.
ReadLine ==
    /\ gen.pc = "read"
    /\ pipe # <<>> \/ proc = "exited"
    /\ \E line \in {IF pipe # <<>> THEN Head(pipe) ELSE EofLine} :
       \E p \in {loop_body(line)} :
          /\ gen' = [pc |-> CASE p.took = "skip" -> "poll"
                              [] p.took = "yield" -> "suspended"
                              [] OTHER -> "unwinding",
                     line |-> line, pass |-> p]
          /\ yielded' = IF p.took = "yield" THEN Append(yielded, p.data) ELSE yielded
    /\ pipe' = IF pipe # <<>> THEN Tail(pipe) ELSE pipe
    /\ UNCHANGED proc
    /\ UNCHANGED hass
    /\ UNCHANGED main

\* The consumer abandons the sequence: close() on the suspended generator
\* raises GeneratorExit at the yield, which leaves the with block.
Close ==
    /\ gen.pc = "suspended"
    /\ gen' = [gen EXCEPT !.pc = "closing"]
    /\ UNCHANGED <<proc, pipe, yielded>>
    /\ UNCHANGED hass
    /\ UNCHANGED main

\* An exception leaves the with block: Popen.__exit__ closes the pipe and
\* waits for the subprocess; nothing terminates it. Then the exception
\* reaches the consumer, or close() returns.
Unwind ==
    /\ gen.pc \in {"unwinding", "closing"}
    /\ proc = "exited"
    /\ gen' = [gen EXCEPT !.pc = IF gen.pc = "unwinding" THEN "raised" ELSE "closed"]
    /\ pipe' = <<>>
    /\ UNCHANGED <<proc, yielded>>
    /\ UNCHANGED hass
    /\ UNCHANGED main

NextReader ==
    \/ Pull
    \/ \E line \in Lines : ProcWrite(line)
    \/ ProcExit
    \/ Poll
    \/ ReadLine
    \/ Close
    \/ Unwind

SpecReader == InitReader /\ [][NextReader]_vars

\* ------------------------------------------------- the loop of main()

SENSOR == "sensor"
BINARY_SENSOR == "binary_sensor"

\* config['entity_id'], in parts: one without a separator and one with.
ConfigEntityIds == {<<"weatherstation">>, <<"weather", ".", "station">>}

\* f"{SENSOR}.{config['entity_id']}_" + name
prefixed(domain, entity_id, name) == <<domain, ".">> \o entity_id \o <<"_", name>>

\* The keys of the mapping dict; the entity of a key is entities[key].
mapping_without_rain ==
    {"temperature", "humidity", "wind_speed_max", "wind_speed_avg", "wind_direction",
     "battery_ok"}
mapping ==
    {"temperature", "humidity", "wind_speed_max", "wind_speed_avg", "wind_direction",
     "rain", "battery_ok"}

\* The seven HassEntity objects main() creates.
dtype_of(key) ==
    CASE key \in {"humidity", "wind_direction"} -> "int"
      [] key = "battery_ok" -> "str"
      [] OTHER -> "float"
create_entities(entity_id) ==
    [k \in mapping |->
        HassEntity(prefixed(IF k = "battery_ok" THEN BINARY_SENSOR ELSE SENSOR,
                            entity_id, k),
                   dtype_of(k), Precision, FALSE)]

\* The value main() hands to update for an item of weather_obj.__dict__.
item_value(key, value) ==
    IF key = "battery_ok"
    THEN IF ToBool(value).val = BoolV(TRUE) THEN StrV(<<"o", "n">>)
         ELSE StrV(<<"o", "f", "f">>)
    ELSE value

\* The loop of lines 126-139 with the objects of lines 48-124 in place: a
\* WeatherStation, a HassAPI whose probe succeeded and the seven entities.
InitLoop ==
    /\ pc = "ready"
    /\ api = [scheme |-> "http", built |-> "yes", probe |-> 200]
    /\ \E entity_id \in ConfigEntityIds : entities = create_entities(entity_id)
    /\ posted = [k \in mapping |-> NoneV]
    /\ req = NoRequest
    /\ call = NoCall
    /\ proc = "none"
    /\ pipe = <<>>
    /\ gen = [NoGen EXCEPT !.pc = "new"]
    /\ yielded = <<>>
    /\ main = [NoMain EXCEPT !.pc = "for", !.updates = [k \in mapping |-> 0]]

\* The items of weather_obj.__dict__ are used up and the last update is back.
ItemsDone ==
    main.pc = "items" /\ main.item > Len(Fields) /\ pc = "ready" /\ ~req.active

\* for weather_obj in weather_station.run_loop(): main() asks the generator
\* for the next item, the first time or after the items of the last one.
MainNext ==
    /\ main.pc = "for" \/ ItemsDone
    /\ next
    /\ main' = [main EXCEPT !.pc = "next"]

\* next() is over: a weather_obj was yielded and its items are gone through,
\* or the generator is exhausted and main() returns, or the exception that
\* left run_loop leaves main().
MainReceive ==
    /\ main.pc = "next" /\ gen.pc \in {"suspended", "done", "raised"}
    /\ main' = CASE gen.pc = "done" -> [main EXCEPT !.pc = "returned"]
                 [] gen.pc = "raised" ->
                       [main EXCEPT !.pc = "crashed", !.exc = gen.pass.exc]
                 [] OTHER -> [main EXCEPT !.pc = "items", !.packet_count = @ + 1,
                                          !.item = 1,
                                          !.updates = [k \in mapping |-> 0]]
    /\ UNCHANGED hass
    /\ UNCHANGED station

\* One item of weather_obj.__dict__: update of the entity mapped to its key,
\* if there is one. The next item waits for the update to return; an
\* exception of update leaves main().
MainItem ==
    /\ main.pc = "items" /\ main.item <= Len(Fields)
    /\ pc = "ready" /\ ~req.active
    /\ \E key \in {Fields[main.item].name} :
          IF key \in mapping
          THEN /\ update(key, item_value(key, yielded[Len(yielded)][key]))
               /\ main' = [main EXCEPT !.item = @ + 1, !.updates[key] = @ + 1,
                                       !.pc = IF call'.out.kind = "raise"
                                              THEN "crashed" ELSE "items",
                                       !.exc = IF call'.out.kind = "raise"
                                               THEN call'.out.exc ELSE ""]
          ELSE /\ main' = [main EXCEPT !.item = @ + 1]
               /\ UNCHANGED hass
               /\ UNCHANGED station

\* The lines rtl_433 writes while main() runs: chatter, an undecodable
\* line, two packets of the configured station and one of another.
LoopLines ==
    {Line("text", Packet1), Line("bytes", Packet1), Line("json", Packet1),
     Line("json", Packet2), Line("json", [Packet1 EXCEPT !.id = IntV(177)])}

NextLoop ==
    \/ MainNext
    \/ MainReceive
    \/ MainItem
    \/ \E a \in Answers : Answer(a)
    \/ \E line \in LoopLines : ProcWrite(line)
    \/ ProcExit
    \/ Poll
    \/ ReadLine
    \/ Unwind

SpecLoop == InitLoop /\ [][NextLoop]_vars

\* ------------------------------------------------- the startup of main()

\* The fields of the dataclass WeatherStation that its __init__ requires:
\* every field but _command, none of which has a default.
WeatherStationFields == {"station_id", "station_model", "entity_id", "usb_path"}

\* WeatherStation(**kwargs) with the keywords given: the generated __init__
\* raises TypeError when a required argument is missing.
WeatherStation_init(keywords) ==
    IF WeatherStationFields \subseteq keywords THEN Ok(NoneV) ELSE Raised("TypeError")

\* The keywords main() passes to WeatherStation.
station_keywords == {"station_id", "station_model", "usb_path"}

\* The configurations main() is started with: each supplies every key.
Configs ==
    {Config(id, model, usb_path, hass_url, entity_id, log_level) :
        id \in {IntV(176), IntV(177)},
        model \in {StrV(<<"Bresser-5in1">>), StrV(<<"Other">>)},
        usb_path \in {<<"/dev/rtl">>},
        hass_url \in Schemes,
        entity_id \in ConfigEntityIds,
        log_level \in {"DEBUG", "INFO", "WARNING"}}

InitMain ==
    /\ pc = "ready"
    /\ api = [scheme |-> "http", built |-> "no", probe |-> 0]
    /\ entities = [k \in {} |-> NoneV]
    /\ posted = [k \in {} |-> NoneV]
    /\ req = NoRequest
    /\ call = NoCall
    /\ NoStation
    /\ main = [NoMain EXCEPT !.pc = "config"]

\* config = yaml.safe_load(file) of config.yaml
LoadConfig ==
    /\ main.pc = "config"
    /\ \E config \in Configs : main' = [main EXCEPT !.pc = "secrets", !.config = config]
    /\ UNCHANGED hass
    /\ UNCHANGED station

\* secrets = yaml.safe_load(file) of secrets.yaml
LoadSecrets ==
    /\ main.pc = "secrets"
    /\ main' = [main EXCEPT !.pc = "logger"]
    /\ UNCHANGED hass
    /\ UNCHANGED station

\* init_logger(log_level=config["log_level"])
InitLogger ==
    /\ main.pc = "logger"
    /\ main' = [main EXCEPT !.pc = "station"]
    /\ UNCHANGED hass
    /\ UNCHANGED station

\* weather_station = WeatherStation(station_id=..., station_model=...,
\* usb_path=...): on success main() goes on to HassAPI(...), on an exception
\* it ends.
CreateStation ==
    /\ main.pc = "station"
    /\ \E r \in {WeatherStation_init(station_keywords)} :
          main' = IF r.exc = "" THEN [main EXCEPT !.pc = "api"]
                  ELSE [main EXCEPT !.pc = "crashed", !.exc = r.exc]
    /\ UNCHANGED hass
    /\ UNCHANGED station

NextMain ==
    \/ LoadConfig
    \/ LoadSecrets
    \/ InitLogger
    \/ CreateStation

SpecMain == InitMain /\ [][NextMain]_vars

\* ------------------------------------------------- properties of update

\* The entity of the most recent update call, and whether that call is over.
Updated == entities[call.key]
UpdateDone == call.op = "update" /\ call.out.kind # "pending"

\* C1: update never propagates a failure to its caller, whatever the dtype,
\* the raw value and the outcome of the post step.
C1_UpdateNeverRaises == call.op = "update" => call.out.kind # "raise"

\* C2, as stated: on an idempotent entity an update whose coerced value
\* equals the cached state issues no HTTP post and leaves the state as it
\* was, and every other accepted value issues exactly one HTTP post.
C2_IdempotentAsStated ==
    (UpdateDone /\ Updated.idempotent /\ call.c.exc = "")
        => IF PyEq(call.pre, call.c.val)
           THEN call.out.http = 0 /\ Updated.state = call.pre
           ELSE call.out.http = 1 /\ posted[call.key] = call.c.val

\* C2, amended: the same on an idempotent entity whose id has exactly one
\* separator; the cached state is then always the last value posted, so no
\* two posts in a row carry the same value. With any other id the post step
\* rejects the id and no HTTP post is issued.
C2_IdempotentPosts ==
    (call.op = "update" /\ Updated.idempotent)
        => /\ (format_entity_url(Updated.entity_id) => posted[call.key] = Updated.state)
           /\ (~format_entity_url(Updated.entity_id) => call.out.http = 0)
           /\ (call.c.exc = "" /\ PyEq(call.pre, call.c.val))
                => (call.out.http = 0 /\ Updated.state = call.pre)
           /\ (call.c.exc = "" /\ ~PyEq(call.pre, call.c.val)
                 /\ format_entity_url(Updated.entity_id))
                => (call.out.http = 1 /\ posted[call.key] = call.c.val)

\* An idempotent entity with a valid id was updated a second time with the
\* value it holds, and nothing was posted.
C2_Witness ==
    /\ UpdateDone /\ Updated.idempotent /\ format_entity_url(Updated.entity_id)
    /\ call.c.exc = "" /\ call.pre # NoneV /\ PyEq(call.pre, call.c.val)
    /\ call.out.http = 0

\* C3, as stated: on an entity without the idempotence flag every update
\* whose value coerces issues one HTTP post, whatever the cached state.
C3_NonIdempotentAsStated ==
    (call.op = "update" /\ ~Updated.idempotent /\ call.c.exc = "")
        => call.out.http = 1

\* C3, amended: the same on an entity whose id has exactly one separator;
\* with any other id no HTTP post is issued.
C3_NonIdempotentPosts ==
    (call.op = "update" /\ ~Updated.idempotent /\ call.c.exc = "")
        => IF format_entity_url(Updated.entity_id)
           THEN call.out.http = 1 /\ posted[call.key] = call.c.val
           ELSE call.out.http = 0

\* An entity without the flag and with a valid id was updated with the value
\* it already held, and the value was posted again.
C3_Witness ==
    /\ UpdateDone /\ ~Updated.idempotent /\ format_entity_url(Updated.entity_id)
    /\ call.c.exc = "" /\ call.pre # NoneV /\ PyEq(call.pre, call.c.val)
    /\ call.out.http = 1

\* C4: when the coercion of the raw value fails, update leaves the cached
\* state as it was and makes no HTTP call, whatever the state and the flag.
C4_CoercionFailureKeepsState ==
    (call.op = "update" /\ call.c.exc # "")
        => /\ Updated.state = call.pre
           /\ call.out.http = 0
           /\ ~req.active

\* A float entity holding a value was updated with the text "abc".
C4_Witness ==
    /\ UpdateDone /\ Updated.dtype = "float" /\ call.raw = StrV(<<"a", "b", "c">>)
    /\ call.c.exc = "ValueError" /\ call.pre # NoneV

\* ----------------------------------------------- properties of HassAPI

\* The hub has so far answered every attempt of the call with a status of
\* the retry list, and the retry budget is not used up.
Only5xxSoFar ==
    /\ call.answers # <<>>
    /\ Len(call.answers) <= MaxRetries
    /\ \A i \in 1..Len(call.answers) :
          call.answers[i].kind = "status" /\ call.answers[i].code \in status_forcelist

\* C5: a state post answered by 500/502/503/504 is retried by the transport
\* without the caller seeing it: while only such answers have come, the post
\* is still under way and no error has been reported or logged.
C5_PostRetries5xx ==
    (call.op = "post" /\ api.scheme = "http" /\ Only5xxSoFar)
        => (call.out.kind = "pending" /\ \A i \in 1..Len(call.out.logs) :
                                            call.out.logs[i] # "error")

\* The number of separators in an entity id.
Separators(id) == Cardinality({i \in 1..Len(id) : id[i] = "."})

\* The call was turned down for its entity id before any request.
RejectedId ==
    /\ call.out.kind = "raise" /\ call.out.exc = "ValueError"
    /\ call.out.http = 0 /\ call.answers = <<>> /\ ~req.active

C7_EntityIdValidation ==
    (call.op \in {"get", "post"})
        => IF Separators(call.id) = 1 THEN ~RejectedId ELSE RejectedId

\* An id with two separators was rejected by get_entity_state.
C7_Witness ==
    /\ call.op = "get" /\ Separators(call.id) = 2 /\ RejectedId


\* The last answer of the hub to the most recent call.
LastAnswer == call.answers[Len(call.answers)]

\* C10: constructing the HassAPI fails with an error whenever the hub is
\* unreachable (the connection is refused or the request unanswered through
\* every retry, or the probe gets a non-success response): there is an API
\* object, and a call on it, only after a probe answered with success.
C10_UnreachableHubIsFatal ==
    /\ (api.built = "yes") => (api.probe # 0 /\ ok(api.probe))
    /\ (call.op = "init" /\ call.out.kind # "pending"
            /\ ~(LastAnswer.kind = "status" /\ ok(LastAnswer.code)))
          => (call.out.kind = "raise" /\ api.built = "failed")
    /\ (api.built # "yes") => (call.op \in {"none", "init"} /\ DOMAIN entities = {})

\* The hub refused every attempt of the probe and the construction raised.
C10_Witness ==
    /\ call.op = "init" /\ call.out.kind = "raise" /\ api.built = "failed"
    /\ LastAnswer = Refused /\ Len(call.answers) = MaxRetries + 1

\* -------------------------------------------- properties of run_loop

\* The line read last is no JSON object, or is an object of the configured
\* station with a missing or ill-typed sensor field.
Malformed(line) ==
    \/ line.kind \in {"bytes", "text", "badjson"}
    \/ /\ line.kind = "json"
       /\ line.obj.id = station_id /\ line.obj.model = station_model
       /\ WeatherData(line.obj).exc # ""

\* C8: for every non-JSON or malformed line run_loop yields nothing, no
\* exception leaves the reader and the loop goes on to the next line.
C8_MalformedLinesSkipped ==
    Malformed(gen.line)
        => (gen.pass.took = "skip" /\ gen.pc \notin {"unwinding", "raised"})

\* C9: a parsed line whose id or model is not the configured one (or is
\* absent) yields nothing and the loop goes on; only lines that match both
\* are turned into a reading.
C9_ForeignLinesSkipped ==
    /\ (gen.line.kind = "json"
          /\ (gen.line.obj.id # station_id \/ gen.line.obj.model # station_model))
        => (gen.pass.took = "skip" /\ gen.pc \in {"poll", "read", "done"})
    /\ (gen.pass.took = "yield")
        => (gen.line.kind = "json" /\ gen.line.obj.id = station_id
              /\ gen.line.obj.model = station_model)

\* A line of station 177 was skipped after a reading had been yielded, and
\* the loop is at its next readline.
C9_Witness ==
    /\ gen.line.kind = "json" /\ gen.line.obj.id = IntV(177)
    /\ gen.line.obj.model = station_model
    /\ gen.pass.took = "skip" /\ gen.pc = "read" /\ Len(yielded) = 1

\* The while loop of run_loop has been left: by the break after poll, by an
\* exception of the loop body, or by the consumer's close().
LoopLeft == gen.pc \in {"done", "unwinding", "raised", "closing", "closed"}

\* C11: the loop of run_loop ends only when the subprocess has exited: in
\* every state in which the loop has been left, the subprocess is gone.
C11_LoopEndsOnlyOnExit == LoopLeft => proc = "exited"

\* C12: on every way out of the read loop the subprocess is terminated and
\* its handle closed: the reader neither waits in Popen.__exit__ for a
\* subprocess that is still running, nor is finished with one left alive.
C12_SubprocessReleased ==
    /\ gen.pc \in {"unwinding", "closing"} => proc = "exited"
    /\ gen.pc \in {"done", "raised", "closed"} => proc = "exited"

\* ------------------------------------- properties of the cached state

\* C13: the cached state of an entity is unset until an update accepts a
\* value, each update that coerces its value leaves the cache holding that
\* value and each other update leaves it as it was, and the post step,
\* whatever the hub answers and however the post ends, does not touch it.
C13_CachedStateIsLastAccepted ==
    /\ [](call.op = "none" => \A k \in DOMAIN entities : entities[k].state = NoneV)
    /\ [][/\ (call'.answers # <<>>) => entities' = entities
          /\ (call'.op = "update" /\ call'.answers = <<>>)
               => entities'[call'.key].state =
                     IF call'.c.exc = "" THEN call'.c.val
                     ELSE entities[call'.key].state]_vars

\* The post of a value that differs from the one held before was answered
\* with status 500, and the cache holds the new value.
C13_Witness ==
    /\ UpdateDone /\ call.answers # <<>> /\ LastAnswer = Status(500)
    /\ call.out.logs = <<"debug", "error">>
    /\ call.pre # NoneV /\ call.c.exc = "" /\ call.c.val # call.pre
    /\ Updated.state = call.c.val

\* ------------------------------------------- properties of the loop of main()

\* The channels of a reading that have an entity.
Channels ==
    {"temperature", "humidity", "wind_speed_max", "wind_speed_avg", "wind_direction",
     "rain", "battery_ok"}

\* An update is under way: its post is on the wire or will never return.
UpdateRunning == req.active \/ pc = "blocked"

\* C14: processing is strictly sequential. For the reading at hand no
\* channel is updated twice and no key but the seven channels is updated;
\* while an update is under way the generator stays suspended at its yield;
\* and whenever run_loop is running again after a reading (about to poll or
\* to read the next line), or has ended, every one of the seven channels of
\* that reading has been updated exactly once and every update has returned.
C14_StrictlySequential ==
    /\ DOMAIN main.updates = Channels
    /\ \A ch \in Channels : main.updates[ch] <= 1
    /\ UpdateRunning => (main.pc = "items" /\ gen.pc = "suspended")
    /\ (main.packet_count > 0 /\ gen.pc # "suspended")
          => (~UpdateRunning /\ \A ch \in Channels : main.updates[ch] = 1)

\* The second line is being read after the seven updates of the first
\* reading, the last of which was answered by the hub, have returned.
C14_Witness ==
    /\ main.packet_count = 1 /\ gen.pc = "read" /\ pipe # <<>>
    /\ \A ch \in Channels : main.updates[ch] = 1 /\ posted[ch] = entities[ch].state
    /\ call.key = "battery_ok" /\ call.answers # <<>>

\* ------------------------------------ properties of get_entity_state

\* The most recent call is over and the hub's last answer to it was a status.
AnsweredWith(codes) ==
    /\ call.out.kind # "pending" /\ call.answers # <<>>
    /\ LastAnswer.kind = "status" /\ LastAnswer.code \in codes

\* The errors that stand for a connectivity failure: the ConnectionError
\* get_entity_state raises, and the RetryError of the transport once it has
\* used up its retries on 500/502/503/504.
ConnectivityErrors == {"ConnectionError", "requests.RetryError"}

C16_RepublishAfterFailure ==
    (call.op = "update" /\ call.after_failure /\ call.c.exc = "")
        => IF ~PyEq(call.c.val, call.pre)
           THEN /\ Attempted(call.out) /\ Updated.state = call.c.val
                /\ format_entity_url(Updated.entity_id)
                     => (call.out.http = 1 /\ posted[call.key] = call.c.val)
           ELSE /\ Updated.idempotent <=> ~Attempted(call.out)
                /\ Updated.idempotent => (call.out.http = 0 /\ ~req.active)

\* The post of one value failed; the update after it, with another value,
\* has its post on the wire, on an idempotent entity.
C16_Witness ==
    /\ call.op = "update" /\ Updated.idempotent
    /\ call.after_failure
    /\ call.c.exc = "" /\ call.pre # NoneV /\ ~PyEq(call.c.val, call.pre)
    /\ req.active /\ req.method = "POST" /\ posted[call.key] = call.c.val

\* ------------------------------------------- properties of the readings

\* The object holds every key a field of WeatherData is read from.
AllPresent(obj) == \A i \in 1..Len(Fields) : obj[Fields[i].key] # Absent

\* C17: every reading yielded has its eight fields set, each from a source
\* field that was present and converted; an object of the configured
\* station that lacks a source field, or holds one whose conversion fails,
\* is not turned into a reading.
C17_ReadingsFromPresentFields ==
    /\ \A i \in 1..Len(yielded) : \A f \in FieldNames : yielded[i][f] # NoneV
    /\ (gen.pass.took = "yield")
          => (AllPresent(gen.line.obj) /\ WeatherData(gen.line.obj).exc = "")
    /\ (gen.line.kind = "json" /\ ~wrong_station(gen.line.obj)
          /\ (~AllPresent(gen.line.obj) \/ WeatherData(gen.line.obj).exc # ""))
          => (gen.pass.took # "yield" /\ gen.pass.data = NoData)

\* ------------------------------------------- properties of the timeout

\* C18: every HTTP attempt of the client (the probe, the state get, the
\* state post) carries the client timeout, so no call waits for ever on a
\* hub that accepts the request and never answers.
C18_EveryAttemptTimesOut ==
    /\ req.active => req.timeout
    /\ pc # "blocked" /\ call.out.kind # "blocked"

\* ------------------------------------------- properties of the delivery

\* The line is a well-formed packet of the configured station: run_loop
\* yields a reading when it reads it.
Accepted(line) == loop_body(line).took = "yield"

\* C19: no accepted packet is lost: once the loop of run_loop has been left,
\* none of the lines the subprocess wrote before it exited is an accepted
\* packet that was never read.
C19_NoAcceptedPacketLost ==
    (gen.pc \in {"done", "unwinding"})
        => \A i \in 1..Len(pipe) : ~Accepted(pipe[i])

\* ------------------------------------------- properties of the startup

\* The configuration supplies station id, station model and device path.
Supplied ==
    /\ main.config.station_id # NoneV /\ main.config.station_model # NoneV
    /\ main.config.usb_path # NoneV

\* C20: with a configuration that supplies station id, station model and
\* device path, no exception leaves main() during its startup: the
\* WeatherStation is constructed and main() goes on to the HassAPI, the
\* entities and the loop.
C20_StartupSucceeds ==
    Supplied => (main.pc # "crashed" /\ main.exc = "")

====
